---- MODULE Spec2Model ----
(***************************************************************************)
(* Model of the Pccoe-Datathon submission portal (src/backend/index.js):   *)
(* the metric functions, the CSV validation of an upload, the per-owner    *)
(* daily upload quota kept in the UploadCount collection, the Score        *)
(* collection, and the midnight reset timer.                               *)
(*                                                                         *)
(* Time is counted in local days: the only comparison the code makes on a  *)
(* stored date is `date >= today` (today = local midnight), so a Date is   *)
(* represented by the number of the day it falls in.                       *)
(* Numbers that the code computes by division are exact rationals <<n,d>>  *)
(* in lowest terms; <<0,0>> is NaN (the result of 0/0).                    *)
(* A CSV cell is a sequence of one-character strings.                      *)
(***************************************************************************)
EXTENDS Integers, Sequences, FiniteSets, Bags, TLC

\* ------------------------------------------------------------------------
\* Program constants
\* ------------------------------------------------------------------------

\* const MAX_DAILY_UPLOADS = process.env.MAX_DAILY_UPLOADS || 5;
MAX_DAILY_UPLOADS == 5

\* ------------------------------------------------------------------------
\* Bounds of the model
\* ------------------------------------------------------------------------

\* last day the clock reaches (day 0 is the day before the server started)
MaxDay == 2
\* number of upload requests accepted in one behaviour of the concurrent
\* specifications
MaxUploads == 2
\* number of Score documents of an owner up to which the sequential
\* specification accepts further requests of that owner
MaxScores == 10
\* largest number of data rows of an uploaded file in the CSV specification
MaxRows == 3
\* largest number of Score documents in the collection the leaderboard is
\* computed from
MaxBoardScores == 3
\* largest length of the label sequences the metric functions are called with
MaxLen == 4
\* largest number of data rows of an uploaded file in the label specification
MaxCellRows == 2
\* largest number of data rows of an uploaded file in the header specification
MaxHeaderRows == 2
\* largest number of data rows of an uploaded file in the alignment specification
MaxAlignRows == 3
MaxRetries == 5
MaxPending == 2

\* ------------------------------------------------------------------------
\* Rational arithmetic (JavaScript Number, without rounding)
\* ------------------------------------------------------------------------

RECURSIVE GCD(_, _)
GCD(a, b) == IF b = 0 THEN a ELSE GCD(b, a % b)

NaNRat == <<0, 0>>
\* n / d for n >= 0, d >= 0 ; 0/0 is NaN
Rat(n, d) == IF d = 0 THEN NaNRat ELSE <<n \div GCD(n, d), d \div GCD(n, d)>>
RatIsNaN(x) == x[2] = 0
RatZero == <<0, 1>>
RatMul(x, y) == Rat(x[1] * y[1], x[2] * y[2])
RatAdd(x, y) == Rat(x[1] * y[2] + y[1] * x[2], x[2] * y[2])
RatDiv(x, y) == Rat(x[1] * y[2], x[2] * y[1])
RatLess(x, y) == x[1] * y[2] < y[1] * x[2]
\* the JavaScript expression  x || 0  on a number: NaN and 0 are falsy
OrZero(x) == IF RatIsNaN(x) \/ x[1] = 0 THEN RatZero ELSE x

\* ------------------------------------------------------------------------
\* Metric engine
\* ------------------------------------------------------------------------

At(s, i) == IF i \in DOMAIN s THEN s[i] ELSE -1     \* s[i], undefined as -1

\* F1Score without the  || 0  after the two divisions
F1ScoreNoOrZero(actual, predicted) ==
    LET idx == 1..Len(actual)
        truePositives  == Cardinality({i \in idx : actual[i] = 1 /\ At(predicted, i) = 1})
        falsePositives == Cardinality({i \in idx : ~(actual[i] = 1 /\ At(predicted, i) = 1)
                                                   /\ At(predicted, i) = 1 /\ actual[i] = 0})
        falseNegatives == Cardinality({i \in idx : ~(At(predicted, i) = 1)
                                                   /\ actual[i] = 1 /\ At(predicted, i) = 0})
        precision == Rat(truePositives, truePositives + falsePositives)
        recall    == Rat(truePositives, truePositives + falseNegatives)
    IN  IF precision = RatZero \/ recall = RatZero
        THEN RatZero
        ELSE RatDiv(RatMul(<<2, 1>>, RatMul(precision, recall)), RatAdd(precision, recall))

F1Score(actual, predicted) ==
    LET idx == 1..Len(actual)
        truePositives  == Cardinality({i \in idx : actual[i] = 1 /\ At(predicted, i) = 1})
        falsePositives == Cardinality({i \in idx : ~(actual[i] = 1 /\ At(predicted, i) = 1)
                                                   /\ At(predicted, i) = 1 /\ actual[i] = 0})
        falseNegatives == Cardinality({i \in idx : ~(At(predicted, i) = 1)
                                                   /\ actual[i] = 1 /\ At(predicted, i) = 0})
        precision == OrZero(Rat(truePositives, truePositives + falsePositives))
        recall    == OrZero(Rat(truePositives, truePositives + falseNegatives))
    IN  IF precision = RatZero \/ recall = RatZero
        THEN RatZero
        ELSE RatDiv(RatMul(<<2, 1>>, RatMul(precision, recall)), RatAdd(precision, recall))

\* Accuracy that counts only the positions where both labels are 1
AccuracyOfPositives(actual, predicted) ==
    LET correct == Cardinality({i \in 1..Len(actual) : actual[i] = 1 /\ At(predicted, i) = 1})
    IN  Rat(correct, Len(actual))

Accuracy(actual, predicted) ==
    LET correct == Cardinality({i \in 1..Len(actual) : actual[i] = At(predicted, i)})
    IN  Rat(correct, Len(actual))

\* ------------------------------------------------------------------------
\* Strings: toLowerCase and parseInt
\* ------------------------------------------------------------------------

\* String.prototype.toLowerCase on the column names that occur in the modelled files
ToLowerCase(k) ==
    CASE k \in {"isFraud", "ISFRAUD", "isfraud", "IsFraud"}        -> "isfraud"
      [] k \in {"FraudLabel", "fraudlabel", "FRAUDLABEL"}          -> "fraudlabel"
      [] k \in {"TransactionID", "transactionid"}                  -> "transactionid"
      [] k \in {"Fraud", "fraud"}                                  -> "fraud"
      [] k \in {"Prediction", "prediction"}                        -> "prediction"
      [] OTHER                                                     -> k

Digits == <<"0", "1", "2", "3", "4", "5", "6", "7", "8", "9">>
IsDigit(c) == \E i \in 1..10 : Digits[i] = c
DigitVal(c) == (CHOOSE i \in 1..10 : Digits[i] = c) - 1
IsSpace(c) == c = " "

RECURSIVE SkipSpaces(_)
SkipSpaces(s) == IF s # <<>> /\ IsSpace(Head(s)) THEN SkipSpaces(Tail(s)) ELSE s

RECURSIVE DigitPrefix(_)
DigitPrefix(s) == IF s # <<>> /\ IsDigit(Head(s)) THEN <<Head(s)>> \o DigitPrefix(Tail(s)) ELSE <<>>

RECURSIVE DigitsValue(_, _)
DigitsValue(s, acc) == IF s = <<>> THEN acc ELSE DigitsValue(Tail(s), 10 * acc + DigitVal(Head(s)))

\* parseInt(s, 10): leading white space is skipped, an optional sign is read,
\* then the longest run of digits; everything after it is ignored.
ParseInt(s) ==
    LET t    == SkipSpaces(s)
        neg  == t # <<>> /\ Head(t) = "-"
        u    == IF t # <<>> /\ Head(t) \in {"-", "+"} THEN Tail(t) ELSE t
        ds   == DigitPrefix(u)
    IN  IF ds = <<>>
        THEN [isNaN |-> TRUE, val |-> 0]
        ELSE [isNaN |-> FALSE, val |-> IF neg THEN 0 - DigitsValue(ds, 0) ELSE DigitsValue(ds, 0)]

\* ------------------------------------------------------------------------
\* CSV tables.  A parsed file is [header, rows]: csv-parser yields one object
\* per data row, keyed by the header names; Object.keys() lists the keys in
\* header order.
\* ------------------------------------------------------------------------

Undefined == "undefined"

Range(s) == {s[i] : i \in DOMAIN s}

\* Array.prototype.find over the keys: the first key that satisfies P
Find(keys, P(_)) ==
    IF \E i \in DOMAIN keys : P(keys[i])
    THEN keys[CHOOSE i \in DOMAIN keys : P(keys[i]) /\ \A j \in 1..(i - 1) : ~P(keys[j])]
    ELSE Undefined

\* the label column looked up by its two names as they are spelled
IsSubmissionFraudKeyExact(k) == k = "isFraud" \/ k = "FraudLabel"
\* k.toLowerCase() === 'isfraud' || k.toLowerCase() === 'fraudlabel'
IsSubmissionFraudKey(k) == ToLowerCase(k) = "isfraud" \/ ToLowerCase(k) = "fraudlabel"
IsTransactionIdKey(k) == ToLowerCase(k) = "transactionid"
IsIdealFraudKey(k) == ToLowerCase(k) \in {"fraudlabel", "isfraud", "fraud"}

NoError == "None"

Outcome(status, error, row, value, tid, actual, expected, preds) ==
    [status |-> status, error |-> error, row |-> row, value |-> value, tid |-> tid,
     actual |-> actual, expected |-> expected, orderedPredictions |-> preds]

Fail(error) == Outcome(422, error, 0, <<>>, <<>>, 0, 0, <<>>)

\* predictionMap is a plain object ({}), its keys are the identifier cells:
\* the key hasOwnProperty becomes an own property that hides the method of
\* Object.prototype, and an assignment of a number to __proto__ is ignored
HasOwnPropertyName == <<"h", "a", "s", "O", "w", "n", "P", "r", "o", "p", "e", "r", "t", "y">>
ProtoName == <<"_", "_", "p", "r", "o", "t", "o", "_", "_">>

\* predictionMap.hasOwnProperty is no longer a function after the loop over
\* the rows: calling it throws a TypeError
MethodShadowed(rows, tidKey) == \E i \in DOMAIN rows : rows[i][tidKey] = HasOwnPropertyName

\* predictionMap.hasOwnProperty(id) and predictionMap[id] after the loop over
\* the rows: a later row with the same identifier overwrites an earlier one
HasPrediction(rows, tidKey, id) == id # ProtoName /\ \E i \in DOMAIN rows : rows[i][tidKey] = id
PredictionMap(rows, fraudKey, tidKey, id) ==
    LET last == CHOOSE i \in DOMAIN rows :
                    rows[i][tidKey] = id /\ \A j \in DOMAIN rows : rows[j][tidKey] = id => j <= i
    IN  ParseInt(rows[last][fraudKey]).val

IsValidPrediction(cell) ==
    LET prediction == ParseInt(cell)
    IN  ~(prediction.isNaN \/ prediction.val \notin {0, 1})

\* orderedPredictions of the upload handler (src/backend/index.js:519-536)
OrderedPredictions(csvData, fraudColKey, transactionIdKey, ideal) ==
    LET hasTransactionId == transactionIdKey # Undefined
        idealTransactionIdColumn == Find(ideal.header, IsTransactionIdKey)
        \* predictions[] is filled only when the file has no TransactionID column
        predictions == IF hasTransactionId THEN <<>>
                       ELSE [i \in DOMAIN csvData |-> ParseInt(csvData[i][fraudColKey]).val]
    IN  IF hasTransactionId /\ idealTransactionIdColumn # Undefined
        THEN [i \in DOMAIN ideal.rows |->
                 PredictionMap(csvData, fraudColKey, transactionIdKey,
                               ideal.rows[i][idealTransactionIdColumn])]
        ELSE predictions

\* ValidateUpload without the comparison of the prediction count with the
\* length of the reference set
ValidateUploadNoCount(csv, ideal) ==
    LET csvData == csv.rows
        fraudColKey == Find(csv.header, IsSubmissionFraudKey)
        transactionIdKey == Find(csv.header, IsTransactionIdKey)
        invalid == {i \in DOMAIN csvData : ~IsValidPrediction(csvData[i][fraudColKey])}
        firstInvalid == CHOOSE i \in invalid : \A j \in invalid : i <= j
        idealTransactionIdColumn == Find(ideal.header, IsTransactionIdKey)
        aligning == transactionIdKey # Undefined /\ idealTransactionIdColumn # Undefined
        missing == {i \in DOMAIN ideal.rows :
                       ~HasPrediction(csvData, transactionIdKey, ideal.rows[i][idealTransactionIdColumn])}
        firstMissing == CHOOSE i \in missing : \A j \in missing : i <= j
    IN  IF Len(csvData) = 0 THEN Fail("EmptyFile")
        ELSE IF fraudColKey = Undefined THEN Fail("MissingColumn")
        ELSE IF invalid # {}
             THEN Outcome(422, "InvalidValue", firstInvalid, csvData[firstInvalid][fraudColKey],
                          <<>>, 0, 0, <<>>)
        ELSE IF Len(ideal.rows) = 0 \/ Find(ideal.header, IsIdealFraudKey) = Undefined
             THEN Outcome(500, "ServerError", 0, <<>>, <<>>, 0, 0, <<>>)
        ELSE IF aligning /\ MethodShadowed(csvData, transactionIdKey)
             THEN Outcome(500, "ServerError", 0, <<>>, <<>>, 0, 0, <<>>)
        ELSE IF aligning /\ missing # {}
             THEN Outcome(422, "MissingPrediction", 0, <<>>,
                          ideal.rows[firstMissing][idealTransactionIdColumn], 0, 0, <<>>)
        ELSE Outcome(200, NoError, 0, <<>>, <<>>, 0, 0,
                     OrderedPredictions(csvData, fraudColKey, transactionIdKey, ideal))

\* The synchronous part of the upload handler between parseCSV and the
\* metric computation (src/backend/index.js:449-544).
ValidateUpload(csv, ideal) ==
    LET csvData == csv.rows
        columnKeys == csv.header
        fraudColKey == Find(columnKeys, IsSubmissionFraudKey)
        transactionIdKey == Find(columnKeys, IsTransactionIdKey)
        hasTransactionId == transactionIdKey # Undefined
        invalid == {i \in DOMAIN csvData : ~IsValidPrediction(csvData[i][fraudColKey])}
        firstInvalid == CHOOSE i \in invalid : \A j \in invalid : i <= j
        idealFraudColumn == Find(ideal.header, IsIdealFraudKey)
        idealTransactionIdColumn == Find(ideal.header, IsTransactionIdKey)
        aligning == hasTransactionId /\ idealTransactionIdColumn # Undefined
        missing == {i \in DOMAIN ideal.rows :
                       ~HasPrediction(csvData, transactionIdKey, ideal.rows[i][idealTransactionIdColumn])}
        firstMissing == CHOOSE i \in missing : \A j \in missing : i <= j
        orderedPredictions == OrderedPredictions(csvData, fraudColKey, transactionIdKey, ideal)
    IN  IF Len(csvData) = 0 THEN Fail("EmptyFile")
        ELSE IF fraudColKey = Undefined THEN Fail("MissingColumn")
        ELSE IF invalid # {}
             THEN Outcome(422, "InvalidValue", firstInvalid, csvData[firstInvalid][fraudColKey],
                          <<>>, 0, 0, <<>>)
        ELSE IF Len(ideal.rows) = 0 \/ idealFraudColumn = Undefined
             THEN Outcome(500, "ServerError", 0, <<>>, <<>>, 0, 0, <<>>)
        ELSE IF aligning /\ MethodShadowed(csvData, transactionIdKey)
             THEN Outcome(500, "ServerError", 0, <<>>, <<>>, 0, 0, <<>>)
        ELSE IF aligning /\ missing # {}
             THEN Outcome(422, "MissingPrediction", 0, <<>>,
                          ideal.rows[firstMissing][idealTransactionIdColumn], 0, 0, <<>>)
        ELSE IF Len(orderedPredictions) # Len(ideal.rows)
             THEN Outcome(422, "RowCountMismatch", 0, <<>>, <<>>,
                          Len(orderedPredictions), Len(ideal.rows), <<>>)
        ELSE Outcome(200, NoError, 0, <<>>, <<>>, 0, 0, orderedPredictions)

\* actuals = IDEAL_DF.map(row => parseInt(row[idealFraudColumn], 10))
Actuals(ideal) ==
    LET idealFraudColumn == Find(ideal.header, IsIdealFraudKey)
    IN  [i \in DOMAIN ideal.rows |-> ParseInt(ideal.rows[i][idealFraudColumn]).val]

\* ------------------------------------------------------------------------
\* Files and reference sets the model draws its inputs from
\* ------------------------------------------------------------------------

\* the usernames that have documents, and those that send the requests
Owners == {"alice", "bob"}
Uploaders == {"alice"}
\* request handlers that can be in flight at the same time
Requests == {"r1", "r2"}

Cell0 == <<"0">>
Cell1 == <<"1">>
T1 == <<"T", "1">>
T2 == <<"T", "2">>
T3 == <<"T", "3">>

\* a table from its header and, per row, the cells in header order
Table(header, cellRows) ==
    [header |-> header,
     rows   |-> [i \in DOMAIN cellRows |->
                    [k \in Range(header) |->
                        cellRows[i][CHOOSE j \in DOMAIN header : header[j] = k]]]]

\* ideal_test.csv: two reference rows, without and with a TransactionID column
IdealPlain == Table(<<"isFraud">>, <<<<Cell1>>, <<Cell0>>>>)
IdealWithId == Table(<<"TransactionID", "isFraud">>, <<<<T1, Cell1>>, <<T2, Cell0>>>>)
IdealSets == {IdealPlain, IdealWithId}

EmptyTable == [header |-> <<>>, rows |-> <<>>]

\* the files of the sequential specification: one the reference set accepts
\* and one with a row too many
SeqMenu ==
    { Table(<<"isFraud">>, <<<<Cell1>>, <<Cell0>>>>),
      Table(<<"isFraud">>, <<<<Cell1>>, <<Cell0>>, <<Cell0>>>>) }

\* the files of the concurrent specifications
RaceMenu ==
    { Table(<<"isFraud">>, <<<<Cell1>>, <<Cell0>>>>),
      Table(<<"TransactionID", "isFraud">>, <<<<T2, Cell0>>, <<T1, Cell1>>>>) }

\* the files of the single-upload specification: every table of at most
\* MaxRows rows under these headers and with these cells
CsvHeaders == {<<"isFraud">>, <<"fraudlabel">>, <<"prediction">>, <<"TransactionID", "isFraud">>}
LabelCells == {Cell0, Cell1, <<"2">>}
IdCells == {T1, T2, T3}
CellsOf(k) == IF IsTransactionIdKey(k) THEN IdCells ELSE LabelCells
RowsOf(header) == {row \in [Range(header) -> LabelCells \cup IdCells] :
                      \A k \in Range(header) : row[k] \in CellsOf(k)}
FilesWith(header) ==
    { [header |-> header, rows |-> rs] : rs \in UNION { [1..n -> RowsOf(header)] : n \in 0..MaxRows } }
CsvFiles == UNION { FilesWith(h) : h \in CsvHeaders }

\* the files of the label specification: one label column, at most
\* MaxCellRows rows, cells that are and are not the literals 0 and 1
CellMenu ==
    { Cell0, Cell1, <<"2">>, <<"y", "e", "s">>, <<"1", ".", "5">>, <<"1", "a", "b", "c">>,
      <<>>, <<" ", "1">> }
CellFiles ==
    { Table(<<"isFraud">>, cells) :
        cells \in UNION { [1..n -> {<<c>> : c \in CellMenu}] : n \in 0..MaxCellRows } }

\* the files of the header specification: headers with and without a label
\* column in several spellings, at most MaxHeaderRows rows of valid cells
HeaderMenu ==
    { <<"isFraud">>, <<"ISFRAUD">>, <<"isfraud">>, <<"IsFraud">>,
      <<"FraudLabel">>, <<"fraudlabel">>, <<"FRAUDLABEL">>,
      <<"Fraud">>, <<"fraud">>, <<"Prediction">>, <<"isFraud ">>, <<"TransactionID">>,
      <<"TransactionID", "FRAUDLABEL">>, <<"Prediction", "IsFraud">>, <<"Prediction", "Fraud">> }
HeaderRows(header) ==
    { row \in [Range(header) -> {Cell0, Cell1, T1}] :
        \A k \in Range(header) : IF IsTransactionIdKey(k) THEN row[k] = T1 ELSE row[k] # T1 }
HeaderFilesWith(header) ==
    { [header |-> header, rows |-> rs] :
        rs \in UNION { [1..n -> HeaderRows(header)] : n \in 0..MaxHeaderRows } }
HeaderFiles == UNION { HeaderFilesWith(h) : h \in HeaderMenu }

\* the files of the alignment specification: identifier and label columns,
\* at most MaxAlignRows rows, identifiers of the reference set and others
AlignHeader == <<"TransactionID", "isFraud">>
AlignIds == {T1, T2, T3, HasOwnPropertyName}
AlignFiles ==
    { Table(AlignHeader, cells) :
        cells \in UNION { [1..n -> {<<id, label>> : id \in AlignIds, label \in {Cell0, Cell1}}] :
                            n \in 0..MaxAlignRows } }

\* ------------------------------------------------------------------------
\* State
\* ------------------------------------------------------------------------

VARIABLES
    IDEAL_DF,       \* the reference table loaded at startup
    now,            \* the current local day
    scores,         \* the Score collection: a bag of documents
    uploadCounts,   \* the UploadCount collection: one document per userId (unique index)
    pc,             \* per request handler: the await it is suspended at
    req,            \* per request handler: its local variables and its response
    timers,         \* pending setTimeout callbacks of scheduleReset: their target days
    resetOps,       \* updateMany calls of resetDailyCounts not yet completed
    uploads,        \* number of upload requests received so far
    okSinceReset,   \* per owner: uploads answered 200 since the last applied reset
    resetQuiet,     \* no request was in flight when the last reset was applied
    boot,           \* the position of startServer() and the table in ideal_test.csv
    metric,         \* the last call of the metric functions: arguments and results
    board,          \* the last response of GET /leaderboard
    conn,           \* the position of connectToMongoDB() and what it has done so far
    stats,          \* the last response of GET /scores
    auth            \* the client: the state of AuthProvider, localStorage, requests in flight

vars == <<IDEAL_DF, now, scores, uploadCounts, pc, req, timers, resetOps, uploads,
          okSinceReset, resetQuiet, boot, metric, board, conn, stats, auth>>
\* what the upload handler and the clock leave alone
outer == <<conn, stats, auth>>
apart == <<boot, metric, board, outer>>
history == <<okSinceReset, resetQuiet>>

stores == <<scores, uploadCounts>>
clockVars == <<now, timers, resetOps>>

\* the day the server is started on; day InitDay - 1 is the day before
InitDay == 1

NoRecord == [exists |-> FALSE, count |-> 0, date |-> 0]
UploadCountDoc(count, date) == [exists |-> TRUE, count |-> count, date |-> date]

\* the JSON body of a response: status, error, uploadsRemaining, and the
\* numbers and strings its details text is built from
Response(status, error, remaining, out) ==
    [status |-> status, error |-> error, uploadsRemaining |-> remaining,
     row |-> out.row, value |-> out.value, tid |-> out.tid,
     actual |-> out.actual, expected |-> out.expected]

NoOutcome == Outcome(0, NoError, 0, <<>>, <<>>, 0, 0, <<>>)
NoResponse == Response(0, NoError, 0, NoOutcome)

IdleReq ==
    [userId |-> "", csv |-> EmptyTable, today |-> 0, userCount |-> NoRecord,
     orderedPredictions |-> <<>>, f1 |-> RatZero, accuracy |-> RatZero, timestamp |-> 0,
     scoreSaved |-> FALSE, response |-> NoResponse]

ScoreDoc(userId, f1, accuracy, timestamp) ==
    [userId |-> userId, f1 |-> f1, accuracy |-> accuracy, timestamp |-> timestamp]

\* number of Score documents of one owner / of one owner stamped on one day
BagFilter(B, P(_)) == [e \in {x \in DOMAIN B : P(x)} |-> B[e]]
NumScores(o) == LET Mine(x) == x.userId = o IN BagCardinality(BagFilter(scores, Mine))
NumScoresOn(o, d) ==
    LET Mine(x) == x.userId = o /\ x.timestamp = d IN BagCardinality(BagFilter(scores, Mine))

InFlight == {r \in Requests : pc[r] \notin {"idle", "done"}}

\* ------------------------------------------------------------------------
\* Initial states
\* ------------------------------------------------------------------------

\* The UploadCount document an earlier run of the server on the start day can
\* have left for an owner: none, or one of that day with the count of the
\* uploads it recorded (none yet, one allowance left, all used).
PriorCounts == {0, MAX_DAILY_UPLOADS - 1, MAX_DAILY_UPLOADS}
PriorDocs == {NoRecord} \cup {UploadCountDoc(c, InitDay) : c \in PriorCounts}

\* the Scores of the uploads those documents recorded (all predictions right)
PriorScores(cnts, ideal) ==
    LET Doc(o) == ScoreDoc(o, F1Score(Actuals(ideal), Actuals(ideal)),
                           Accuracy(Actuals(ideal), Actuals(ideal)), cnts[o].date)
        owners == {o \in Owners : cnts[o].exists /\ cnts[o].count > 0}
    IN  [e \in {Doc(o) : o \in owners} |-> cnts[CHOOSE o \in owners : Doc(o) = e].count]

\* startServer() has reached app.listen() with the table file
Listening(file) == [phase |-> "listening", file |-> file]

\* no metric call and no leaderboard request yet
NoCall == [actual |-> <<>>, predicted |-> <<>>, f1 |-> RatZero, accuracy |-> RatZero, called |-> FALSE]
NoBoard == [status |-> 0, query |-> [present |-> FALSE, text |-> <<>>], leaderboard |-> <<>>]

\* connectToMongoDB(retries = 5, delay = 5000) has returned after its first attempt
DefaultRetries == 5
Connected ==
    [phase |-> "returned", retries |-> DefaultRetries, i |-> 0, attempts |-> 1,
     failed |-> 0, waits |-> 0, code |-> 0]

\* no request for the scores of an owner yet; best_f1 is null or a number
NullF1 == [isNull |-> TRUE, f1 |-> RatZero]
NoStats ==
    [status |-> 0, userId |-> "", query |-> [present |-> FALSE, text |-> <<>>], scores |-> <<>>,
     total_submissions |-> 0, best_f1 |-> NullF1, uploads_today |-> 0, uploads_remaining |-> 0]

\* the client before AuthProvider is mounted: the useState initial values
\* with the token localStorage holds (Null for none), no default
\* Authorization header, no POST /login and no GET /verify-token in flight
Null == "null"
Tokens == {"t1", "t2"}
Unmounted(stored) ==
    [mounted |-> FALSE, user |-> Null, token |-> stored, isAuthenticated |-> FALSE,
     isLoading |-> TRUE, stored |-> stored, header |-> Null,
     loggingIn |-> [o \in Owners |-> 0], verifying |-> [t \in Tokens |-> 0]]

\* startServer() has loaded IDEAL_DF, called scheduleReset() and listens
InitServer(cnts, ideal) ==
    /\ IDEAL_DF = ideal
    /\ now = InitDay
    /\ uploadCounts = cnts
    /\ scores = PriorScores(cnts, ideal)
    /\ pc = [r \in Requests |-> "idle"]
    /\ req = [r \in Requests |-> IdleReq]
    /\ timers = <<InitDay + 1>>
    /\ resetOps = 0
    /\ uploads = 0
    /\ okSinceReset = [o \in Owners |-> IF cnts[o].exists THEN cnts[o].count ELSE 0]
    /\ resetQuiet = TRUE
    /\ boot = Listening(ideal)
    /\ metric = NoCall
    /\ board = NoBoard
    /\ conn = Connected
    /\ stats = NoStats
    /\ auth = Unmounted(Null)

\* the first owner has used the server before, the others are new
Init ==
    \E doc \in PriorDocs, ideal \in IdealSets :
        InitServer([o \in Owners |-> IF o = "alice" THEN doc ELSE NoRecord], ideal)

\* the first owner is new, another owner may have used the server before
InitFresh ==
    \E doc \in PriorDocs :
        InitServer([o \in Owners |-> IF o = "alice" THEN NoRecord ELSE doc], IdealPlain)

\* ------------------------------------------------------------------------
\* POST /upload (src/backend/index.js:422-588), one action per await
\* ------------------------------------------------------------------------

\* UploadCount.findOne({ userId, date: { $gte: today } })
FindOne(cnts, userId, today) ==
    IF cnts[userId].exists /\ cnts[userId].date >= today THEN cnts[userId] ELSE NoRecord

\* MAX_DAILY_UPLOADS - (userCount ? userCount.count + 1 : 1), evaluated on the
\* in-memory document after the commit
UploadsRemaining(userCount) ==
    MAX_DAILY_UPLOADS - (IF userCount.exists THEN userCount.count + 1 ELSE 1)

\* res.status(..).json(..): the handler returns, its locals are gone
Respond(r, response) ==
    /\ pc' = [pc EXCEPT ![r] = "done"]
    /\ req' = [req EXCEPT ![r] = [IdleReq EXCEPT !.userId = req[r].userId,
                                                 !.scoreSaved = req[r].scoreSaved,
                                                 !.response = response]]

\* the catch block (lines 581-587)
ServerError == Response(500, "ServerError", 0, NoOutcome)

\* the request arrives with an authenticated user and a file
Begin(r, o, file) ==
    /\ pc[r] \in {"idle", "done"}
    /\ pc' = [pc EXCEPT ![r] = "check"]
    /\ req' = [req EXCEPT ![r] = [IdleReq EXCEPT !.userId = o, !.csv = file]]
    /\ UNCHANGED <<IDEAL_DF, apart, stores, clockVars, history>>

\* QuotaCheck with the limit compared by > instead of >=
QuotaCheckOffByOne(r) ==
    /\ pc[r] = "check"
    /\ LET today == now
           userCount == FindOne(uploadCounts, req[r].userId, today)
       IN  IF userCount.exists /\ userCount.count > MAX_DAILY_UPLOADS
           THEN Respond(r, Response(429, "QuotaExceeded", 0, NoOutcome))
           ELSE /\ pc' = [pc EXCEPT ![r] = "parse"]
                /\ req' = [req EXCEPT ![r].today = today, ![r].userCount = userCount]
    /\ UNCHANGED <<IDEAL_DF, apart, stores, clockVars, uploads, history>>

\* QuotaCheck that charges the upload when it lets the request pass
QuotaCheckReserves(r) ==
    /\ pc[r] = "check"
    /\ LET today == now
           o == req[r].userId
           userCount == FindOne(uploadCounts, o, today)
       IN  IF userCount.exists /\ userCount.count >= MAX_DAILY_UPLOADS
           THEN Respond(r, Response(429, "QuotaExceeded", 0, NoOutcome)) /\ UNCHANGED uploadCounts
           ELSE /\ pc' = [pc EXCEPT ![r] = "parse"]
                /\ req' = [req EXCEPT ![r].today = today, ![r].userCount = userCount]
                /\ uploadCounts' = [uploadCounts EXCEPT ![o] =
                        IF uploadCounts[o].exists THEN [@ EXCEPT !.count = @ + 1]
                        ELSE UploadCountDoc(1, today)]
    /\ UNCHANGED <<IDEAL_DF, apart, scores, clockVars, uploads, history>>

\* lines 430-444: today, findOne, the limit check
QuotaCheck(r) ==
    /\ pc[r] = "check"
    /\ LET today == now
           userCount == FindOne(uploadCounts, req[r].userId, today)
       IN  IF userCount.exists /\ userCount.count >= MAX_DAILY_UPLOADS
           THEN Respond(r, Response(429, "QuotaExceeded", 0, NoOutcome))
           ELSE /\ pc' = [pc EXCEPT ![r] = "parse"]
                /\ req' = [req EXCEPT ![r].today = today, ![r].userCount = userCount]
    /\ UNCHANGED <<IDEAL_DF, apart, stores, clockVars, uploads, history>>

\* lines 446-558: parseCSV, validation, alignment, metrics, the Score document
ParseAndScore(r) ==
    /\ pc[r] = "parse"
    /\ LET out == ValidateUpload(req[r].csv, IDEAL_DF)
           actuals == Actuals(IDEAL_DF)
       IN  IF out.status # 200
           THEN Respond(r, Response(out.status, out.error, 0, out))
           ELSE /\ pc' = [pc EXCEPT ![r] = "save"]
                /\ req' = [req EXCEPT ![r].csv = EmptyTable,
                                      ![r].orderedPredictions = out.orderedPredictions,
                                      ![r].f1 = F1Score(actuals, out.orderedPredictions),
                                      ![r].accuracy = Accuracy(actuals, out.orderedPredictions),
                                      ![r].timestamp = now]
    /\ UNCHANGED <<IDEAL_DF, apart, stores, clockVars, uploads, history>>

\* line 560: await score.save()
SaveScore(r) ==
    /\ pc[r] = "save"
    /\ scores' = scores (+) SetToBag({ScoreDoc(req[r].userId, req[r].f1, req[r].accuracy,
                                               req[r].timestamp)})
    /\ pc' = [pc EXCEPT ![r] = "commit"]
    /\ req' = [req EXCEPT ![r].scoreSaved = TRUE]
    /\ UNCHANGED <<IDEAL_DF, apart, uploadCounts, clockVars, uploads, history>>

\* lines 562-579: the upload count is written from the document read at the
\* quota check, or a new document is created; then the 200 response.
\* save() writes the modified path only: { $set: { count } }.
\* create() is rejected by the unique index on userId when a document of the
\* owner exists; the exception ends in the catch block (lines 581-587).
CommitQuota(r) ==
    /\ pc[r] = "commit"
    /\ LET o == req[r].userId
           userCount == req[r].userCount
           incremented == [userCount EXCEPT !.count = @ + 1]
       IN  IF userCount.exists
           THEN /\ uploadCounts' = [uploadCounts EXCEPT ![o].count = incremented.count]
                /\ Respond(r, Response(200, NoError, UploadsRemaining(incremented), NoOutcome))
                /\ okSinceReset' = [okSinceReset EXCEPT ![o] = @ + 1]
           ELSE IF uploadCounts[o].exists
                THEN /\ Respond(r, ServerError)
                     /\ UNCHANGED <<uploadCounts, okSinceReset>>
                ELSE /\ uploadCounts' = [uploadCounts EXCEPT ![o] = UploadCountDoc(1, req[r].today)]
                     /\ Respond(r, Response(200, NoError, UploadsRemaining(userCount), NoOutcome))
                     /\ okSinceReset' = [okSinceReset EXCEPT ![o] = @ + 1]
    /\ UNCHANGED <<IDEAL_DF, apart, scores, clockVars, uploads, resetQuiet>>

\* a storage operation of the handler throws: the catch block answers 500
FindOneFails(r) ==
    /\ pc[r] = "check"
    /\ Respond(r, ServerError)
    /\ UNCHANGED <<IDEAL_DF, apart, stores, clockVars, uploads, history>>

\* SaveScoreFails of a handler that counts the upload before it saves the Score
SaveScoreFailsCharges(r) ==
    /\ pc[r] = "save"
    /\ Respond(r, ServerError)
    /\ uploadCounts' = [uploadCounts EXCEPT ![req[r].userId] =
            IF @.exists THEN [@ EXCEPT !.count = @ + 1] ELSE UploadCountDoc(1, req[r].today)]
    /\ UNCHANGED <<IDEAL_DF, apart, scores, clockVars, uploads, history>>

SaveScoreFails(r) ==
    /\ pc[r] = "save"
    /\ Respond(r, ServerError)
    /\ UNCHANGED <<IDEAL_DF, apart, stores, clockVars, uploads, history>>

\* CommitQuotaFails of a handler that takes the Score back when the commit fails
CommitQuotaFailsRollsBack(r) ==
    /\ pc[r] = "commit"
    /\ Respond(r, ServerError)
    /\ scores' = scores (-) SetToBag({ScoreDoc(req[r].userId, req[r].f1, req[r].accuracy,
                                               req[r].timestamp)})
    /\ UNCHANGED <<IDEAL_DF, apart, uploadCounts, clockVars, uploads, history>>

\* userCount.save() or UploadCount.create() throws (lines 562-572)
CommitQuotaFails(r) ==
    /\ pc[r] = "commit"
    /\ Respond(r, ServerError)
    /\ UNCHANGED <<IDEAL_DF, apart, stores, clockVars, uploads, history>>

\* ------------------------------------------------------------------------
\* startServer and loadIdealTestData (src/backend/index.js:172-202, 785-807)
\* ------------------------------------------------------------------------

\* the tables ideal_test.csv can hold: with and without a label column, with
\* and without rows
RefHeaders == {<<"isFraud">>, <<"Fraud">>, <<"Prediction">>, <<"TransactionID", "FraudLabel">>}
ReferenceFiles == UNION {HeaderFilesWith(h) : h \in RefHeaders}

\* startServer() is about to load the reference set: IDEAL_DF is still [],
\* no timer is set, nobody listens
InitStart ==
    \E file \in ReferenceFiles :
        /\ IDEAL_DF = EmptyTable
        /\ now = InitDay
        /\ scores = EmptyBag
        /\ uploadCounts = [o \in Owners |-> NoRecord]
        /\ pc = [r \in Requests |-> "idle"]
        /\ req = [r \in Requests |-> IdleReq]
        /\ timers = <<>>
        /\ resetOps = 0
        /\ uploads = 0
        /\ okSinceReset = [o \in Owners |-> 0]
        /\ resetQuiet = TRUE
        /\ boot = [phase |-> "loading", file |-> file]
        /\ metric = NoCall
        /\ board = NoBoard
        /\ conn = Connected
        /\ stats = NoStats
        /\ auth = Unmounted(Null)

\* the 'end' handler of loadIdealTestData: results is usable if it has a row
\* and the first row has a label column
Usable(results) == Len(results.rows) # 0 /\ Find(results.header, IsIdealFraudKey) # Undefined

\* loadIdealTestData that resolves with whatever it has read
LoadIdealUnchecked ==
    /\ boot.phase = "loading"
    /\ IDEAL_DF' = boot.file
    /\ timers' = <<now + 1>>
    /\ boot' = [boot EXCEPT !.phase = "listening"]
    /\ UNCHANGED <<stores, pc, req, now, resetOps, uploads, history, metric, board, outer>>

\* IDEAL_DF = await loadIdealTestData(); scheduleReset(); app.listen(); a
\* rejection goes to the catch block of startServer: process.exit(1)
LoadIdealTestData ==
    /\ boot.phase = "loading"
    /\ IF Usable(boot.file)
       THEN /\ IDEAL_DF' = boot.file
            /\ timers' = <<now + 1>>
            /\ boot' = [boot EXCEPT !.phase = "listening"]
       ELSE /\ boot' = [boot EXCEPT !.phase = "exited"]
            /\ UNCHANGED <<IDEAL_DF, timers>>
    /\ UNCHANGED <<stores, pc, req, now, resetOps, uploads, history, metric, board, outer>>

\* the read stream emits 'error': the promise is rejected
LoadIdealFails ==
    /\ boot.phase = "loading"
    /\ boot' = [boot EXCEPT !.phase = "exited"]
    /\ UNCHANGED <<IDEAL_DF, stores, pc, req, clockVars, uploads, history, metric, board, outer>>

\* ------------------------------------------------------------------------
\* connectToMongoDB (src/backend/index.js:70-91, src/index.js:66-87)
\* ------------------------------------------------------------------------

\* the values of the retries parameter (startServer passes none: 5)
RetryCounts == 1..MaxRetries

\* the loop is entered with i = 0 and the first mongoose.connect() is issued
Connecting(retries) ==
    [phase |-> "connecting", retries |-> retries, i |-> 0, attempts |-> 1,
     failed |-> 0, waits |-> 0, code |-> 0]

\* startServer() has called connectToMongoDB(): nothing is loaded, no timer
\* is set, nobody listens
InitConnect ==
    \E file \in ReferenceFiles, retries \in RetryCounts :
        /\ IDEAL_DF = EmptyTable
        /\ now = InitDay
        /\ scores = EmptyBag
        /\ uploadCounts = [o \in Owners |-> NoRecord]
        /\ pc = [r \in Requests |-> "idle"]
        /\ req = [r \in Requests |-> IdleReq]
        /\ timers = <<>>
        /\ resetOps = 0
        /\ uploads = 0
        /\ okSinceReset = [o \in Owners |-> 0]
        /\ resetQuiet = TRUE
        /\ boot = [phase |-> "connecting", file |-> file]
        /\ metric = NoCall
        /\ board = NoBoard
        /\ conn = Connecting(retries)
        /\ stats = NoStats
        /\ auth = Unmounted(Null)

\* await mongoose.connect() resolves: return; startServer() goes on to
\* load the reference set
ConnectSucceeds ==
    /\ conn.phase = "connecting"
    /\ conn' = [conn EXCEPT !.phase = "returned"]
    /\ boot' = [boot EXCEPT !.phase = "loading"]
    /\ UNCHANGED <<IDEAL_DF, stores, pc, req, clockVars, uploads, history, metric, board,
                   stats, auth>>

\* ConnectFails of a loop that waits after its last attempt as well
ConnectFailsWaitsAlways ==
    /\ conn.phase = "connecting"
    /\ IF conn.i < conn.retries
       THEN /\ conn' = [conn EXCEPT !.phase = "waiting", !.failed = @ + 1, !.waits = @ + 1]
            /\ UNCHANGED boot
       ELSE /\ conn' = [conn EXCEPT !.phase = "exited", !.failed = @ + 1, !.code = 1]
            /\ boot' = [boot EXCEPT !.phase = "exited"]
    /\ UNCHANGED <<IDEAL_DF, stores, pc, req, clockVars, uploads, history, metric, board,
                   stats, auth>>

\* await mongoose.connect() rejects: the catch block starts the delay when
\* i < retries - 1 and calls process.exit(1) otherwise
ConnectFails ==
    /\ conn.phase = "connecting"
    /\ IF conn.i < conn.retries - 1
       THEN /\ conn' = [conn EXCEPT !.phase = "waiting", !.failed = @ + 1, !.waits = @ + 1]
            /\ UNCHANGED boot
       ELSE /\ conn' = [conn EXCEPT !.phase = "exited", !.failed = @ + 1, !.code = 1]
            /\ boot' = [boot EXCEPT !.phase = "exited"]
    /\ UNCHANGED <<IDEAL_DF, stores, pc, req, clockVars, uploads, history, metric, board,
                   stats, auth>>

\* the setTimeout of the delay fires: i++, the next mongoose.connect() is issued
DelayElapses ==
    /\ conn.phase = "waiting"
    /\ conn' = [conn EXCEPT !.phase = "connecting", !.i = @ + 1, !.attempts = @ + 1]
    /\ UNCHANGED <<IDEAL_DF, stores, pc, req, clockVars, uploads, history, boot, metric, board,
                   stats, auth>>

\* ------------------------------------------------------------------------
\* GET /leaderboard (src/backend/index.js:591-643)
\* ------------------------------------------------------------------------

\* req.query.limit: absent (undefined) or the text of the parameter
NoQuery == [present |-> FALSE, text |-> <<>>]
Query(text) == [present |-> TRUE, text |-> text]

\* parseInt(req.query.limit, 10) || 5
DefaultLimit == 5
LimitAlwaysDefault(query) == DefaultLimit
Limit(query) ==
    IF ~query.present \/ ParseInt(query.text).isNaN \/ ParseInt(query.text).val = 0
    THEN DefaultLimit
    ELSE ParseInt(query.text).val

\* $group by userId with $max of f1
UserIds(S) == {x.userId : x \in S}
EntriesOf(S, o) == {x \in S : x.userId = o}
MaxF1(S, o) ==
    CHOOSE f \in {x.f1 : x \in EntriesOf(S, o)} :
        \A x \in EntriesOf(S, o) : ~RatLess(f, x.f1)

\* $project of a Score as a leaderboard entry
BoardEntry(x) ==
    [user_id |-> x.userId, f1_score |-> x.f1, accuracy |-> x.accuracy,
     last_submission |-> x.timestamp]

\* an entry built from the largest f1, accuracy and timestamp of the owner,
\* each taken on its own
BestEntriesMaxEach(S, o) ==
    LET mine == EntriesOf(S, o)
    IN  { [user_id |-> o, f1_score |-> MaxF1(S, o),
           accuracy |-> CHOOSE a \in {x.accuracy : x \in mine} :
                            \A x \in mine : ~RatLess(a, x.accuracy),
           last_submission |-> CHOOSE t \in {x.timestamp : x \in mine} :
                                   \A x \in mine : x.timestamp <= t] }

\* $filter on f1 = maxF1, $sortArray by timestamp ascending, $arrayElemAt 0:
\* the entries the first place can go to (entries with equal timestamp come
\* in any order)
BestEntries(S, o) ==
    LET best == {x \in EntriesOf(S, o) : x.f1 = MaxF1(S, o)}
    IN  {BoardEntry(x) : x \in {y \in best : \A z \in best : y.timestamp <= z.timestamp}}

\* $sort { f1_score: -1, last_submission: 1 }: a comes strictly before b
SortsBefore(a, b) ==
    \/ RatLess(b.f1_score, a.f1_score)
    \/ a.f1_score = b.f1_score /\ a.last_submission < b.last_submission

Take(q, n) == SubSeq(q, 1, IF n < Len(q) THEN n ELSE Len(q))

\* the lists the pipeline can return for a collection S and $limit limit
Leaderboards(S, limit) ==
    LET owners == UserIds(S)
        n == Cardinality(owners)
        picks == {p \in [owners -> UNION {BestEntries(S, o) : o \in owners}] :
                     \A o \in owners : p[o] \in BestEntries(S, o)}
        orders == {q \in [1..n -> owners] : \A i, j \in 1..n : q[i] = q[j] => i = j}
        Sorted(p, q) == \A i, j \in 1..n : i < j => ~SortsBefore(p[q[j]], p[q[i]])
    IN  {Take([i \in 1..n |-> pq[1][pq[2][i]]], limit) :
            pq \in {x \in picks \X orders : Sorted(x[1], x[2])}}

\* the values of the limit parameter
LimitQueries ==
    {NoQuery, Query(<<"a", "b", "c">>), Query(<<"0">>), Query(<<"1">>), Query(<<"2">>),
     Query(<<"-", "1">>)}

\* GET /leaderboard?limit=query ; $limit rejects a number that is not
\* positive and the catch block answers 500
GetLeaderboard ==
    /\ board.status = 0
    /\ \E query \in LimitQueries :
          IF Limit(query) <= 0
          THEN board' = [status |-> 500, query |-> query, leaderboard |-> <<>>]
          ELSE \E list \in Leaderboards(BagToSet(scores), Limit(query)) :
                  board' = [status |-> 200, query |-> query, leaderboard |-> list]
    /\ UNCHANGED <<IDEAL_DF, stores, pc, req, clockVars, uploads, history, boot, metric, outer>>

\* the Scores earlier runs of the server have stored: two values of f1 and of
\* accuracy, three instants before the start
BoardF1 == {<<9, 10>>, <<19, 20>>}
BoardAccuracy == {<<1, 2>>, <<1, 1>>}
BoardTimes == {InitDay - 3, InitDay - 2, InitDay - 1}
BoardDocs ==
    {ScoreDoc(o, f, a, t) : o \in Owners, f \in BoardF1, a \in BoardAccuracy, t \in BoardTimes}

\* the server started on a collection of at most MaxBoardScores of them;
\* the upload counts are those of the day before the start
InitBoard ==
    \E S \in {T \in SUBSET BoardDocs : Cardinality(T) <= MaxBoardScores} :
        /\ IDEAL_DF = IdealPlain
        /\ now = InitDay
        /\ scores = SetToBag(S)
        /\ uploadCounts =
              [o \in Owners |->
                  IF EntriesOf(S, o) = {} THEN NoRecord
                  ELSE UploadCountDoc(
                           Cardinality({x \in EntriesOf(S, o) : x.timestamp = InitDay - 1}),
                           InitDay - 1)]
        /\ pc = [r \in Requests |-> "idle"]
        /\ req = [r \in Requests |-> IdleReq]
        /\ timers = <<InitDay + 1>>
        /\ resetOps = 0
        /\ uploads = 0
        /\ okSinceReset = [o \in Owners |-> 0]
        /\ resetQuiet = TRUE
        /\ boot = Listening(IdealPlain)
        /\ metric = NoCall
        /\ board = NoBoard
        /\ conn = Connected
        /\ stats = NoStats
        /\ auth = Unmounted(Null)

\* ------------------------------------------------------------------------
\* GET /leaderboard of the standalone server (src/index.js:316-354)
\* ------------------------------------------------------------------------

\* $group by userId: $max of f1, of accuracy and of timestamp, each taken on
\* its own; $project renames latestSubmission to last_submission
GroupMax(S, o) ==
    LET mine == EntriesOf(S, o)
    IN  [user_id |-> o, f1_score |-> MaxF1(S, o),
         accuracy |-> CHOOSE a \in {x.accuracy : x \in mine} :
                          \A x \in mine : ~RatLess(a, x.accuracy),
         last_submission |-> CHOOSE t \in {x.timestamp : x \in mine} :
                                 \A x \in mine : x.timestamp <= t]

\* $sort { f1_score: -1, latestSubmission: 1 } and $limit: the lists the
\* pipeline can return (groups equal in both keys come in any order)
StandaloneLeaderboards(S, limit) ==
    LET owners == UserIds(S)
        n == Cardinality(owners)
        orders == {q \in [1..n -> owners] : \A i, j \in 1..n : q[i] = q[j] => i = j}
        Sorted(q) ==
            \A i, j \in 1..n : i < j => ~SortsBefore(GroupMax(S, q[j]), GroupMax(S, q[i]))
    IN  {Take([i \in 1..n |-> GroupMax(S, q[i])], limit) : q \in {x \in orders : Sorted(x)}}

\* GET /leaderboard?limit=query of src/index.js
GetStandaloneLeaderboard ==
    /\ board.status = 0
    /\ \E query \in LimitQueries :
          IF Limit(query) <= 0
          THEN board' = [status |-> 500, query |-> query, leaderboard |-> <<>>]
          ELSE \E list \in StandaloneLeaderboards(BagToSet(scores), Limit(query)) :
                  board' = [status |-> 200, query |-> query, leaderboard |-> list]
    /\ UNCHANGED <<IDEAL_DF, stores, pc, req, clockVars, uploads, history, boot, metric, outer>>

\* ------------------------------------------------------------------------
\* GET /scores (src/backend/index.js:655-700)
\* ------------------------------------------------------------------------

\* parseInt(req.query.limit, 10) || 0
ScoresLimit(query) ==
    IF ~query.present \/ ParseInt(query.text).isNaN THEN 0 ELSE ParseInt(query.text).val

\* the projection { _id: 0, f1: 1, accuracy: 1, timestamp: 1 }
Projected(x) == [f1 |-> x.f1, accuracy |-> x.accuracy, timestamp |-> x.timestamp]

\* the documents of owner o in bag B, each as often as it is stored
Owned(B, o) == [e \in {x \in DOMAIN B : x.userId = o} |-> B[e]]

\* Listed with sort({ timestamp: 1 })
ListedOldestFirst(B, o) ==
    LET mine == Owned(B, o)
        n == BagCardinality(mine)
    IN  {q \in [1..n -> DOMAIN mine] :
            /\ \A e \in DOMAIN mine : Cardinality({i \in 1..n : q[i] = e}) = mine[e]
            /\ \A i, j \in 1..n : i < j => q[i].timestamp <= q[j].timestamp}

\* Score.find({ userId }).sort({ timestamp: -1 }): the orders the documents
\* of the owner can come in (documents of one instant in any order)
Listed(B, o) ==
    LET mine == Owned(B, o)
        n == BagCardinality(mine)
    IN  {q \in [1..n -> DOMAIN mine] :
            /\ \A e \in DOMAIN mine : Cardinality({i \in 1..n : q[i] = e}) = mine[e]
            /\ \A i, j \in 1..n : i < j => q[i].timestamp >= q[j].timestamp}

\* the values of the limit parameter (limit(0) is no limit)
ScoresQueries == {NoQuery, Query(<<"a">>), Query(<<"0">>), Query(<<"1">>), Query(<<"2">>)}

\* GET /scores of the authenticated owner o
GetScores ==
    /\ stats.status = 0
    /\ \E o \in Owners, query \in ScoresQueries : \E list \in Listed(scores, o) :
          LET limit == ScoresLimit(query)
              userScores == IF limit = 0 THEN list ELSE Take(list, limit)
              today == now
              userCount == FindOne(uploadCounts, o, today)
              uploadsToday == IF userCount.exists THEN userCount.count ELSE 0
              mine == EntriesOf(BagToSet(scores), o)
          IN  stats' = [status |-> 200, userId |-> o, query |-> query,
                        scores |-> [i \in 1..Len(userScores) |-> Projected(userScores[i])],
                        total_submissions |-> NumScores(o),
                        best_f1 |-> IF mine = {} THEN NullF1
                                    ELSE [isNull |-> FALSE, f1 |-> MaxF1(BagToSet(scores), o)],
                        uploads_today |-> uploadsToday,
                        uploads_remaining |-> MAX_DAILY_UPLOADS - uploadsToday]
    /\ UNCHANGED <<IDEAL_DF, stores, pc, req, clockVars, uploads, history, boot, metric, board,
                   conn, auth>>

\* a query of the handler throws: the catch block answers 500
GetScoresFails ==
    /\ stats.status = 0
    /\ \E o \in Owners, query \in ScoresQueries :
          stats' = [NoStats EXCEPT !.status = 500, !.userId = o, !.query = query]
    /\ UNCHANGED <<IDEAL_DF, stores, pc, req, clockVars, uploads, history, boot, metric, board,
                   conn, auth>>

\* the Scores stored by uploads of the day before the start and of the
\* start day
StatsDocs ==
    {ScoreDoc(o, f, <<1, 1>>, t) : o \in Owners, f \in BoardF1, t \in {InitDay - 1, InitDay}}

\* the server runs on at most MaxBoardScores of them, one possibly stored
\* twice; an owner's upload count is that of the last day the owner uploaded
InitStats ==
    \E S \in SUBSET StatsDocs : \E D \in SUBSET S :
        /\ Cardinality(D) <= 1
        /\ Cardinality(S) + Cardinality(D) <= MaxBoardScores
        /\ IDEAL_DF = IdealPlain
        /\ now = InitDay
        /\ scores = SetToBag(S) (+) SetToBag(D)
        /\ uploadCounts =
              [o \in Owners |->
                  LET on(t) == BagCardinality(Owned(SetToBag({x \in S : x.timestamp = t})
                                                    (+) SetToBag({x \in D : x.timestamp = t}), o))
                  IN  IF EntriesOf(S, o) = {} THEN NoRecord
                      ELSE IF on(InitDay) > 0 THEN UploadCountDoc(on(InitDay), InitDay)
                      ELSE UploadCountDoc(on(InitDay - 1), InitDay - 1)]
        /\ pc = [r \in Requests |-> "idle"]
        /\ req = [r \in Requests |-> IdleReq]
        /\ timers = <<InitDay + 1>>
        /\ resetOps = 0
        /\ uploads = 0
        /\ okSinceReset = [o \in Owners |-> 0]
        /\ resetQuiet = TRUE
        /\ boot = Listening(IdealPlain)
        /\ metric = NoCall
        /\ board = NoBoard
        /\ conn = Connected
        /\ stats = NoStats
        /\ auth = Unmounted(Null)

\* ------------------------------------------------------------------------
\* The clock and the daily reset (src/backend/index.js:205-229)
\* ------------------------------------------------------------------------

\* local midnight passes; a due timer fires and its update completes before
\* the next midnight
Tick ==
    /\ now < MaxDay
    /\ resetOps = 0
    /\ \A i \in DOMAIN timers : timers[i] > now
    /\ now' = now + 1
    /\ UNCHANGED <<IDEAL_DF, apart, stores, pc, req, timers, resetOps, uploads, history>>

RemoveAt(s, i) == [j \in 1..(Len(s) - 1) |-> IF j < i THEN s[j] ELSE s[j + 1]]

\* the setTimeout callback with scheduleReset() called a second time
TimerFiresSchedulesTwice ==
    /\ \E i \in DOMAIN timers :
          /\ timers[i] <= now
          /\ timers' = Append(Append(RemoveAt(timers, i), now + 1), now + 1)
    /\ resetOps' = resetOps + 1
    /\ UNCHANGED <<IDEAL_DF, apart, stores, pc, req, now, uploads, history>>

\* the setTimeout callback: resetDailyCounts() issues its updateMany, and
\* scheduleReset() sets the timer for the next midnight
TimerFires ==
    /\ \E i \in DOMAIN timers :
          /\ timers[i] <= now
          /\ timers' = Append(RemoveAt(timers, i), now + 1)
    /\ resetOps' = resetOps + 1
    /\ UNCHANGED <<IDEAL_DF, apart, stores, pc, req, now, uploads, history>>

\* ResetDailyCounts with { $set: { count: 0 } }: the date is left as it was
ResetKeepsDate ==
    /\ resetOps > 0
    /\ resetOps' = resetOps - 1
    /\ uploadCounts' = [o \in Owners |->
                           IF uploadCounts[o].exists
                           THEN UploadCountDoc(0, uploadCounts[o].date) ELSE NoRecord]
    /\ okSinceReset' = [o \in Owners |-> 0]
    /\ resetQuiet' = (InFlight = {})
    /\ UNCHANGED <<IDEAL_DF, apart, scores, pc, req, now, timers, uploads>>

\* UploadCount.updateMany({}, { $set: { count: 0, date: new Date() } })
ResetDailyCounts ==
    /\ resetOps > 0
    /\ resetOps' = resetOps - 1
    /\ uploadCounts' = [o \in Owners |->
                           IF uploadCounts[o].exists THEN UploadCountDoc(0, now) ELSE NoRecord]
    /\ okSinceReset' = [o \in Owners |-> 0]
    /\ resetQuiet' = (InFlight = {})
    /\ UNCHANGED <<IDEAL_DF, apart, scores, pc, req, now, timers, uploads>>

\* the updateMany throws; resetDailyCounts logs the error
ResetFails ==
    /\ resetOps > 0
    /\ resetOps' = resetOps - 1
    /\ UNCHANGED <<IDEAL_DF, apart, stores, pc, req, now, timers, uploads, history>>

\* ------------------------------------------------------------------------
\* AuthProvider (src/project/src/contexts/AuthContext.tsx:30-124)
\* ------------------------------------------------------------------------

\* the token the server issues to a user at login, and the user a token is of
TokenOf(o) == IF o = "alice" THEN "t1" ELSE "t2"
UserOf(t) == IF t = "t1" THEN "alice" ELSE "bob"

\* the effects on [token] (lines 36-65 and 107-111) after a render with
\* token t: with a token GET /verify-token is sent and the default header
\* is set, without one loading ends; a set of the same value causes no render
VerifyToken(a, t) ==
    IF a.mounted /\ t = a.token THEN a
    ELSE IF t = Null THEN [a EXCEPT !.token = t, !.isLoading = FALSE]
    ELSE [a EXCEPT !.token = t, !.verifying[t] = @ + 1, !.header = t]

\* the requests of the client that have not been answered
Pending(a) ==
    a.loggingIn["alice"] + a.loggingIn["bob"] + a.verifying["t1"] + a.verifying["t2"]

\* the page is opened with or without a token in localStorage
InitAuth ==
    \E stored \in {Null} \cup Tokens :
        /\ IDEAL_DF = IdealPlain
        /\ now = InitDay
        /\ scores = EmptyBag
        /\ uploadCounts = [o \in Owners |-> NoRecord]
        /\ pc = [r \in Requests |-> "idle"]
        /\ req = [r \in Requests |-> IdleReq]
        /\ timers = <<InitDay + 1>>
        /\ resetOps = 0
        /\ uploads = 0
        /\ okSinceReset = [o \in Owners |-> 0]
        /\ resetQuiet = TRUE
        /\ boot = Listening(IdealPlain)
        /\ metric = NoCall
        /\ board = NoBoard
        /\ conn = Connected
        /\ stats = NoStats
        /\ auth = Unmounted(stored)

\* AuthProvider is mounted: the effect runs for the first time
Mount ==
    /\ ~auth.mounted
    /\ auth' = [VerifyToken(auth, auth.token) EXCEPT !.mounted = TRUE]
    /\ UNCHANGED <<IDEAL_DF, stores, pc, req, clockVars, uploads, history, boot, metric, board,
                   conn, stats>>

\* login (line 69): POST /login is sent for user o
LoginRequest ==
    /\ auth.mounted
    /\ Pending(auth) < MaxPending
    /\ \E o \in Owners : auth' = [auth EXCEPT !.loggingIn[o] = @ + 1]
    /\ UNCHANGED <<IDEAL_DF, stores, pc, req, clockVars, uploads, history, boot, metric, board,
                   conn, stats>>

\* login (lines 70-80): POST /login has answered with a token and a user
LoginSucceeds ==
    /\ \E o \in Owners :
          /\ auth.loggingIn[o] > 0
          /\ auth' = VerifyToken([auth EXCEPT !.loggingIn[o] = @ - 1, !.stored = TokenOf(o),
                                              !.user = o, !.isAuthenticated = TRUE,
                                              !.header = TokenOf(o)], TokenOf(o))
    /\ UNCHANGED <<IDEAL_DF, stores, pc, req, clockVars, uploads, history, boot, metric, board,
                   conn, stats>>

\* login (lines 81-83): POST /login has failed, the error is thrown on
LoginFails ==
    /\ \E o \in Owners :
          /\ auth.loggingIn[o] > 0
          /\ auth' = [auth EXCEPT !.loggingIn[o] = @ - 1]
    /\ UNCHANGED <<IDEAL_DF, stores, pc, req, clockVars, uploads, history, boot, metric, board,
                   conn, stats>>

\* logout (lines 86-92)
Logout ==
    /\ auth.mounted
    /\ auth' = VerifyToken([auth EXCEPT !.stored = Null, !.user = Null,
                                        !.isAuthenticated = FALSE, !.header = Null], Null)
    /\ UNCHANGED <<IDEAL_DF, stores, pc, req, clockVars, uploads, history, boot, metric, board,
                   conn, stats>>

\* GET /verify-token sent with token t answers authenticated: true
\* (lines 48-50, 60)
VerifyTokenSucceeds ==
    /\ \E t \in Tokens :
          /\ auth.verifying[t] > 0
          /\ auth' = [auth EXCEPT !.verifying[t] = @ - 1, !.user = UserOf(t),
                                  !.isAuthenticated = TRUE, !.isLoading = FALSE]
    /\ UNCHANGED <<IDEAL_DF, stores, pc, req, clockVars, uploads, history, boot, metric, board,
                   conn, stats>>

\* GET /verify-token sent with token t answers authenticated: false, or
\* the request throws (lines 51-60): the two branches do the same
VerifyTokenFails ==
    /\ \E t \in Tokens :
          /\ auth.verifying[t] > 0
          /\ auth' = VerifyToken([auth EXCEPT !.verifying[t] = @ - 1, !.stored = Null,
                                              !.isLoading = FALSE], Null)
    /\ UNCHANGED <<IDEAL_DF, stores, pc, req, clockVars, uploads, history, boot, metric, board,
                   conn, stats>>

\* ------------------------------------------------------------------------
\* Shutdown (src/backend/index.js:809-816)
\* ------------------------------------------------------------------------

\* the SIGTERM listener runs: it logs and calls mongoose.connection.close();
\* the handle of the reset timer was not kept and no timer is cleared
Sigterm ==
    /\ boot.phase = "listening"
    /\ boot' = [boot EXCEPT !.phase = "closing"]
    /\ UNCHANGED <<IDEAL_DF, stores, pc, req, clockVars, uploads, history, metric, board, outer>>

\* the callback of close(): process.exit(0); the timers and the calls in
\* progress end with the process
ConnectionClosed ==
    /\ boot.phase = "closing"
    /\ boot' = [boot EXCEPT !.phase = "exited"]
    /\ timers' = <<>>
    /\ resetOps' = 0
    /\ UNCHANGED <<IDEAL_DF, stores, pc, req, now, uploads, history, metric, board, outer>>

\* ------------------------------------------------------------------------
\* Specifications
\* ------------------------------------------------------------------------

\* a request arrives; the second handler is taken only while the first is busy
BeginUpload ==
    /\ uploads < MaxUploads
    /\ uploads' = uploads + 1
    /\ \E r \in Requests, o \in Uploaders, f \in RaceMenu :
          /\ r = "r2" => pc["r1"] \notin {"idle", "done"}
          /\ Begin(r, o, f)
\* a request arrives while no other is being handled
BeginSeq ==
    /\ InFlight = {}
    /\ UNCHANGED uploads
    /\ \E o \in Uploaders, f \in SeqMenu :
          /\ NumScores(o) <= MaxScores
          /\ Begin("r1", o, f)
\* the only request of a behaviour arrives
BeginCsv ==
    /\ uploads = 0
    /\ uploads' = 1
    /\ \E o \in Uploaders, f \in CsvFiles : Begin("r1", o, f)
\* the only request of a behaviour arrives with identifiers and labels
BeginAlign ==
    /\ uploads = 0
    /\ uploads' = 1
    /\ \E o \in Uploaders, f \in AlignFiles : Begin("r1", o, f)
\* F1Score(actual, predicted) and Accuracy(actual, predicted) are called
\* once with two label sequences of the same length
CallMetrics ==
    /\ ~metric.called
    /\ \E n \in 0..MaxLen : \E actual \in [1..n -> {0, 1}], predicted \in [1..n -> {0, 1}] :
          metric' = [actual |-> actual, predicted |-> predicted,
                     f1 |-> F1Score(actual, predicted),
                     accuracy |-> Accuracy(actual, predicted), called |-> TRUE]
    /\ UNCHANGED <<IDEAL_DF, stores, pc, req, clockVars, uploads, history, boot, board, outer>>

\* the only request of a behaviour arrives once the server listens
BeginStart ==
    /\ boot.phase = "listening"
    /\ uploads = 0
    /\ uploads' = 1
    /\ \E o \in Uploaders, f \in SeqMenu : Begin("r1", o, f)
\* the only request of a behaviour arrives with a label column
BeginCell ==
    /\ uploads = 0
    /\ uploads' = 1
    /\ \E o \in Uploaders, f \in CellFiles : Begin("r1", o, f)
\* the only request of a behaviour arrives with some header
BeginHeader ==
    /\ uploads = 0
    /\ uploads' = 1
    /\ \E o \in Uploaders, f \in HeaderFiles : Begin("r1", o, f)
DoQuotaCheck == \E r \in Requests : QuotaCheck(r)
DoParseAndScore == \E r \in Requests : ParseAndScore(r)
DoSaveScore == \E r \in Requests : SaveScore(r)
DoCommitQuota == \E r \in Requests : CommitQuota(r)
StorageFails == \E r \in Requests : FindOneFails(r) \/ SaveScoreFails(r) \/ CommitQuotaFails(r)

Handlers == DoQuotaCheck \/ DoParseAndScore \/ DoSaveScore \/ DoCommitQuota
Clock == Tick \/ TimerFires \/ ResetDailyCounts

\* concurrent requests, a database left by earlier runs, storage failures
Next == BeginUpload \/ Handlers \/ Clock \/ StorageFails \/ ResetFails
Spec == Init /\ [][Next]_vars

\* the same without storage failures
NextOK == BeginUpload \/ Handlers \/ Clock
SpecOK == Init /\ [][NextOK]_vars

\* one request at a time, all of an owner who starts without documents, no
\* storage failures
NextSeq == BeginSeq \/ Handlers \/ Clock
SpecSeq == InitFresh /\ [][NextSeq]_vars

\* a single upload of any file of CsvFiles, no storage failures
NextCsv == BeginCsv \/ Handlers
SpecCsv == Init /\ [][NextCsv]_vars

\* a single upload of any file of AlignFiles, no storage failures
NextAlign == BeginAlign \/ Handlers
SpecAlign == Init /\ [][NextAlign]_vars

\* a single upload of any file of CellFiles, no storage failures
NextCell == BeginCell \/ Handlers
SpecCell == Init /\ [][NextCell]_vars

\* a single upload of any file of HeaderFiles, no storage failures
NextHeader == BeginHeader \/ Handlers
SpecHeader == Init /\ [][NextHeader]_vars

\* the metric functions called on their own
NextMetric == CallMetrics
SpecMetric == InitFresh /\ [][NextMetric]_vars

\* one leaderboard request on a collection left by earlier runs
NextBoard == GetLeaderboard
SpecBoard == InitBoard /\ [][NextBoard]_vars

\* the start of the server from the load of the reference set on, and a
\* single upload
NextStart == LoadIdealTestData \/ LoadIdealFails \/ BeginStart \/ Handlers
SpecStart == InitStart /\ [][NextStart]_vars

\* the start of the server from the call of connectToMongoDB() to
\* app.listen(); every connection attempt settles (serverSelectionTimeoutMS)
\* and every delay elapses
NextConnect ==
    ConnectSucceeds \/ ConnectFails \/ DelayElapses \/ LoadIdealTestData \/ LoadIdealFails
SpecConnect ==
    /\ InitConnect /\ [][NextConnect]_vars
    /\ WF_vars(ConnectSucceeds \/ ConnectFails) /\ WF_vars(DelayElapses)

\* one request for the scores of an owner on a collection left by earlier
\* uploads
NextStats == GetScores \/ GetScoresFails
SpecStats == InitStats /\ [][NextStats]_vars

\* the process runs: midnights pass, its timers fire, its updates complete or fail
Alive == boot.phase # "exited"
ClockWhileAlive == Alive /\ (Clock \/ ResetFails)

\* the start of the server from the load of the reference set on, its
\* clock and its shutdown by SIGTERM
NextStop ==
    LoadIdealTestData \/ LoadIdealFails \/ ClockWhileAlive \/ Sigterm \/ ConnectionClosed
SpecStop == InitStart /\ [][NextStop]_vars

\* one leaderboard request to the standalone server on a collection left
\* by earlier runs
NextStandalone == GetStandaloneLeaderboard
SpecStandalone == InitBoard /\ [][NextStandalone]_vars

\* the client: mount, logins, logouts and the answers to its token
\* verifications in any order
NextAuth ==
    \/ Mount \/ LoginRequest \/ LoginSucceeds \/ LoginFails \/ Logout
    \/ VerifyTokenSucceeds \/ VerifyTokenFails
SpecAuth == InitAuth /\ [][NextAuth]_vars

\* ------------------------------------------------------------------------
\* Properties
\* ------------------------------------------------------------------------

ScoreOf(r) == ScoreDoc(req[r].userId, req[r].f1, req[r].accuracy, req[r].timestamp)

\* C1: on a day without a reset (the start day: the first timer is due at the
\* next midnight) no owner ever has more than MAX_DAILY_UPLOADS Scores,
\* however the requests of that owner interleave.
C1_DailyScoresWithinLimit ==
    \A o \in Owners : NumScoresOn(o, InitDay) <= MAX_DAILY_UPLOADS

\* C2: for an owner without documents at the start and one request at a time, on the
\* start day a request passes the quota check exactly while its owner has
\* fewer than MAX_DAILY_UPLOADS Scores; a request that passed it with a valid
\* file is answered 200; every other one is answered 429 and changes neither
\* the Scores nor the upload counts.
C2_SequentialQuota ==
    [][\A r \in Requests :
          LET o == req[r].userId
          IN  /\ (pc[r] = "check" /\ pc'[r] # "check" /\ now = InitDay) =>
                    IF NumScores(o) < MAX_DAILY_UPLOADS
                    THEN pc'[r] = "parse"
                    ELSE /\ pc'[r] = "done"
                         /\ req'[r].response.status = 429
                         /\ req'[r].response.error = "QuotaExceeded"
                         /\ UNCHANGED stores
              /\ (pc[r] = "parse" /\ pc'[r] # "parse" /\ req[r].today = InitDay
                  /\ ValidateUpload(req[r].csv, IDEAL_DF).status = 200) => pc'[r] = "save"
              /\ (pc[r] = "save" /\ pc'[r] # "save" /\ req[r].today = InitDay) => pc'[r] = "commit"
              /\ (pc[r] = "commit" /\ pc'[r] # "commit" /\ req[r].today = InitDay) =>
                    /\ req'[r].response.status = 200
                    /\ uploadCounts'[o].count = NumScores(o)
                    /\ NumScores(o) <= MAX_DAILY_UPLOADS
      ]_vars

\* the sixth request of an owner on the start day has been answered 429
C2_Witness ==
    \E r \in Requests :
        /\ pc[r] = "done" /\ req[r].response.status = 429 /\ now = InitDay
        /\ NumScores(req[r].userId) = MAX_DAILY_UPLOADS
        /\ uploadCounts[req[r].userId] = UploadCountDoc(MAX_DAILY_UPLOADS, InitDay)

\* C3: the steps of a request up to and including the validation of the file
\* and the metric computation (quota check, parse and score) change neither
\* the Score collection nor any UploadCount document, so a request that ends
\* in one of them leaves both as they were.
C3_FailureLeavesStores ==
    [][\A r \in Requests : (pc[r] \in {"check", "parse"} /\ pc'[r] # pc[r]) => UNCHANGED stores]_vars

\* a request was rejected for an invalid value on a database that holds
\* Scores and an upload count
C3_Witness ==
    \E r \in Requests :
        /\ pc[r] = "done" /\ req[r].response.error = "InvalidValue"
        /\ uploadCounts[req[r].userId].exists
        /\ NumScores(req[r].userId) > 0

\* C4: an UploadCount document changes only by a reset or by the commit step
\* of a request of that owner whose Score has been saved and is in the
\* collection; the step in which the save of the Score fails changes no
\* upload count.
C4_QuotaAfterScore ==
    [][/\ \A o \in Owners :
            uploadCounts'[o] # uploadCounts[o] =>
                \/ resetOps' < resetOps
                \/ \E r \in Requests :
                      /\ pc[r] = "commit" /\ pc'[r] = "done" /\ req[r].userId = o
                      /\ req[r].scoreSaved
                      /\ BagIn(ScoreOf(r), scores)
       /\ \A r \in Requests : (pc[r] = "save" /\ pc'[r] = "done") => UNCHANGED uploadCounts
      ]_vars

\* a request whose Score was saved has incremented an existing upload count
C4_Witness ==
    \E r \in Requests :
        /\ pc[r] = "done" /\ req[r].response.status = 200 /\ req[r].scoreSaved
        /\ uploadCounts[req[r].userId].count > 1

\* C5: the 200 response of an upload reports uploadsRemaining =
\* MAX_DAILY_UPLOADS - the owner's stored count right after the commit.
C5_RemainingMatchesCount ==
    [][\A r \in Requests :
          (pc[r] = "commit" /\ pc'[r] = "done" /\ req'[r].response.status = 200) =>
              req'[r].response.uploadsRemaining =
                  MAX_DAILY_UPLOADS - uploadCounts'[req[r].userId].count
      ]_vars

\* C6: whatever document the owner has (none, one of today, one of an earlier
\* day), the commit of a request that passed the quota check answers 200 and
\* leaves the owner a document of the current day whose count is 1 if there
\* was none for that day and one more than before otherwise.
C6_CommitAlwaysCounts ==
    [][\A r \in Requests :
          (pc[r] = "commit" /\ pc'[r] # "commit") =>
              LET o == req[r].userId
                  before == FindOne(uploadCounts, o, req[r].today)
              IN  /\ req'[r].response.status = 200
                  /\ uploadCounts'[o].exists
                  /\ uploadCounts'[o].date >= req[r].today
                  /\ uploadCounts'[o].count = (IF before.exists THEN before.count + 1 ELSE 1)
      ]_vars

\* C7: a reset applied while no request is in flight leaves every UploadCount
\* document with count 0 and the date of the reset; from then on the count of
\* a document is the number of its owner's uploads answered 200 since
\* the reset, so a request is answered 429 only after exactly
\* MAX_DAILY_UPLOADS of them.
C7_ResetRestoresQuota ==
    [][/\ (resetOps' < resetOps /\ InFlight = {}) =>
              \A o \in Owners : uploadCounts'[o].exists => uploadCounts'[o] = UploadCountDoc(0, now)
       /\ resetQuiet' =>
              \A o \in Owners : uploadCounts'[o].exists => uploadCounts'[o].count = okSinceReset'[o]
       /\ \A r \in Requests :
              (resetQuiet /\ pc[r] = "check" /\ pc'[r] # "check") =>
                  (req'[r].response.status = 429 <=>
                      /\ okSinceReset[req[r].userId] = MAX_DAILY_UPLOADS
                      /\ FindOne(uploadCounts, req[r].userId, now).exists)
      ]_vars

\* an owner with MAX_DAILY_UPLOADS Scores of the start day has, after the
\* reset of the next day, completed MAX_DAILY_UPLOADS uploads again and is
\* answered 429
C7_Witness ==
    \E r \in Requests :
        /\ pc[r] = "done" /\ req[r].response.status = 429 /\ now = InitDay + 1
        /\ resetQuiet
        /\ uploadCounts[req[r].userId] = UploadCountDoc(MAX_DAILY_UPLOADS, InitDay + 1)
        /\ okSinceReset[req[r].userId] = MAX_DAILY_UPLOADS
        /\ NumScoresOn(req[r].userId, InitDay) = MAX_DAILY_UPLOADS

\* C8: the Score collection changes only by the save step of a request whose
\* aligned predictions are as many as the reference rows, and by exactly
\* that request's Score.
C8_ScoresHaveReferenceLength ==
    [][scores' # scores =>
          \E r \in Requests :
              /\ pc[r] = "save" /\ pc'[r] = "commit"
              /\ Len(req[r].orderedPredictions) = Len(IDEAL_DF.rows)
              /\ scores' = scores (+) SetToBag({ScoreOf(r)})
      ]_vars

\* a Score was saved for predictions aligned by TransactionID
C8_Witness ==
    \E r \in Requests :
        /\ pc[r] = "commit" /\ req[r].scoreSaved
        /\ IDEAL_DF = IdealWithId
        /\ Len(req[r].orderedPredictions) = Len(IDEAL_DF.rows)
        /\ BagIn(ScoreOf(r), scores)

\* the file has a recognised label column and only the values 0 and 1 in it
OtherwiseValid(csv) ==
    /\ Find(csv.header, IsSubmissionFraudKey) # Undefined
    /\ \A i \in DOMAIN csv.rows :
           ParseInt(csv.rows[i][Find(csv.header, IsSubmissionFraudKey)]).val \in {0, 1}
           /\ ~ParseInt(csv.rows[i][Find(csv.header, IsSubmissionFraudKey)]).isNaN

\* C9: an otherwise valid file of N+1 or N-1 data rows (N = number of
\* reference rows) is rejected with RowCountMismatch reporting N and the
\* file's row count, with or without TransactionID columns; one of exactly N
\* rows is accepted.
C9_RowCountChecked ==
    [][\A r \in Requests :
          (pc[r] = "parse" /\ pc'[r] # "parse" /\ OtherwiseValid(req[r].csv)) =>
              LET n == Len(req[r].csv.rows)
                  N == Len(IDEAL_DF.rows)
              IN  /\ n \in {N + 1, N - 1} =>
                        /\ pc'[r] = "done"
                        /\ req'[r].response.error = "RowCountMismatch"
                        /\ req'[r].response.expected = N
                        /\ req'[r].response.actual = n
                  /\ n = N => pc'[r] = "save"
      ]_vars

\* C10: when the file or the reference set has no TransactionID column, the
\* predictions scored are the file's label values in row order, so a valid
\* file of N rows is scored.
C10_RowOrderWithoutAlignment ==
    [][\A r \in Requests :
          LET csv == req[r].csv
              aligning == /\ Find(csv.header, IsTransactionIdKey) # Undefined
                          /\ Find(IDEAL_DF.header, IsTransactionIdKey) # Undefined
          IN  (/\ pc[r] = "parse" /\ pc'[r] # "parse"
               /\ OtherwiseValid(csv) /\ ~aligning
               /\ Len(csv.rows) = Len(IDEAL_DF.rows)) =>
                  /\ pc'[r] = "save"
                  /\ req'[r].orderedPredictions =
                        [i \in DOMAIN csv.rows |->
                            ParseInt(csv.rows[i][Find(csv.header, IsSubmissionFraudKey)]).val]
      ]_vars

\* the labels the rows of a file give for one identifier
LabelsFor(csv, id) ==
    LET tidKey == Find(csv.header, IsTransactionIdKey)
        fraudKey == Find(csv.header, IsSubmissionFraudKey)
    IN  {ParseInt(csv.rows[j][fraudKey]).val : j \in {k \in DOMAIN csv.rows : csv.rows[k][tidKey] = id}}

\* the identifiers of the reference rows, in reference order
IdealIds(ideal) ==
    [i \in DOMAIN ideal.rows |-> ideal.rows[i][Find(ideal.header, IsTransactionIdKey)]]

\* C11: when the file (with valid labels) and the reference set both have a
\* TransactionID column, then if the file has a row for every reference
\* identifier the request goes on to be scored with, at each position i, a
\* label the file gives for the identifier of reference row i; otherwise it
\* is answered MissingPrediction with the first absent identifier in
\* reference order.
C11_AlignedByIdentifier ==
    [][\A r \in Requests :
          LET csv == req[r].csv
              ids == IdealIds(IDEAL_DF)
              absent == {i \in DOMAIN ids : LabelsFor(csv, ids[i]) = {}}
          IN  (/\ pc[r] = "parse" /\ pc'[r] # "parse"
               /\ Len(csv.rows) > 0
               /\ Find(csv.header, IsTransactionIdKey) # Undefined
               /\ Find(IDEAL_DF.header, IsTransactionIdKey) # Undefined
               /\ \A j \in DOMAIN csv.rows :
                      IsValidPrediction(csv.rows[j][Find(csv.header, IsSubmissionFraudKey)]))
              => IF absent = {}
                 THEN /\ pc'[r] = "save"
                      /\ Len(req'[r].orderedPredictions) = Len(ids)
                      /\ \A i \in DOMAIN ids :
                             req'[r].orderedPredictions[i] \in LabelsFor(csv, ids[i])
                 ELSE /\ req'[r].response.error = "MissingPrediction"
                      /\ req'[r].response.tid = ids[CHOOSE i \in absent : \A j \in absent : i <= j]
      ]_vars

\* C12: a file with a label column in which some cell is not exactly the
\* literal 0 or 1 is answered InvalidValue with the 1-based index of the
\* first such row and the raw content of its cell.
C12_OnlyLiteralLabels ==
    [][\A r \in Requests :
          LET csv == req[r].csv
              fraudKey == Find(csv.header, IsSubmissionFraudKey)
              bad == {j \in DOMAIN csv.rows : csv.rows[j][fraudKey] \notin {Cell0, Cell1}}
              first == CHOOSE j \in bad : \A k \in bad : j <= k
          IN  (pc[r] = "parse" /\ pc'[r] # "parse" /\ fraudKey # Undefined /\ bad # {})
              => /\ req'[r].response.error = "InvalidValue"
                 /\ req'[r].response.row = first
                 /\ req'[r].response.value = csv.rows[first][fraudKey]
      ]_vars

\* the spellings of the two label names in HeaderMenu
LabelSpellings == {"isFraud", "ISFRAUD", "isfraud", "IsFraud", "FraudLabel", "fraudlabel", "FRAUDLABEL"}
HasLabelColumn(csv) == Range(csv.header) \cap LabelSpellings # {}

MetricIdx == 1..Len(metric.actual)
Tp == Cardinality({i \in MetricIdx : metric.actual[i] = 1 /\ metric.predicted[i] = 1})
Fp == Cardinality({i \in MetricIdx : metric.actual[i] = 0 /\ metric.predicted[i] = 1})
Fn == Cardinality({i \in MetricIdx : metric.actual[i] = 1 /\ metric.predicted[i] = 0})

\* C14: F1Score is 0 when there is no true positive, and otherwise
\* 2 * precision * recall / (precision + recall) with precision =
\* tp / (tp + fp) and recall = tp / (tp + fn), which is 2 tp / (2 tp + fp + fn).
C14_F1Formula ==
    metric.called =>
        IF Tp = 0
        THEN metric.f1 = RatZero
        ELSE /\ metric.f1 = RatDiv(RatMul(<<2, 1>>, RatMul(Rat(Tp, Tp + Fp), Rat(Tp, Tp + Fn))),
                                   RatAdd(Rat(Tp, Tp + Fp), Rat(Tp, Tp + Fn)))
             /\ metric.f1 = Rat(2 * Tp, 2 * Tp + Fp + Fn)

\* actual = [1,0,1,1], predicted = [1,0,0,1]: tp = 2, fp = 0, fn = 1, F1 = 4/5
C14_Witness ==
    /\ metric.called
    /\ metric.actual = <<1, 0, 1, 1>> /\ metric.predicted = <<1, 0, 0, 1>>
    /\ Tp = 2 /\ Fp = 0 /\ Fn = 1
    /\ metric.f1 = <<4, 5>>

\* the other label
Complement(a) == [i \in DOMAIN a |-> 1 - a[i]]

\* C15: for non-empty sequences Accuracy is the number of positions where
\* the two agree divided by the length: 1 for a sequence and itself, 0 for
\* a sequence and its complement.
C15_AccuracyFormula ==
    (metric.called /\ Len(metric.actual) > 0) =>
        /\ metric.accuracy =
              Rat(Cardinality({i \in MetricIdx : metric.actual[i] = metric.predicted[i]}),
                  Len(metric.actual))
        /\ metric.predicted = metric.actual => metric.accuracy = <<1, 1>>
        /\ metric.predicted = Complement(metric.actual) => metric.accuracy = RatZero

\* Accuracy was called with a sequence of both labels and its complement
C15_Witness ==
    /\ metric.called
    /\ metric.actual = <<1, 0, 1>> /\ metric.predicted = Complement(metric.actual)
    /\ metric.accuracy = RatZero

\* C16: a call of Accuracy with empty sequences does not return the 0/0
\* result.
C16_AccuracyRejectsEmpty ==
    (metric.called /\ Len(metric.actual) = 0) => ~RatIsNaN(metric.accuracy)

\* the stored Scores, and the numbers of the last leaderboard response
Stored == BagToSet(scores)
BoardIdx == DOMAIN board.leaderboard

\* C17: the leaderboard has at most one entry per owner, and the f1,
\* accuracy and timestamp of an entry are those of one stored Score of
\* that owner which has the owner's largest f1 and, among the owner's
\* Scores with that f1, the earliest timestamp.
C17_EntryIsBestScore ==
    board.status = 200 =>
        /\ \A i, j \in BoardIdx :
               board.leaderboard[i].user_id = board.leaderboard[j].user_id => i = j
        /\ \A i \in BoardIdx :
               LET e == board.leaderboard[i]
               IN  \E x \in Stored :
                      /\ x.userId = e.user_id /\ x.f1 = e.f1_score
                      /\ x.accuracy = e.accuracy /\ x.timestamp = e.last_submission
                      /\ \A y \in Stored : y.userId = x.userId =>
                             /\ ~RatLess(x.f1, y.f1)
                             /\ y.f1 = x.f1 => x.timestamp <= y.timestamp

\* an owner whose latest Score is not the best one is listed with the best
\* one, while a later Score has the better accuracy
C17_Witness ==
    /\ board.status = 200
    /\ \E i \in BoardIdx : \E y \in Stored :
          LET e == board.leaderboard[i]
          IN  /\ y.userId = e.user_id
              /\ y.timestamp > e.last_submission
              /\ RatLess(e.accuracy, y.accuracy)
              /\ RatLess(y.f1, e.f1_score)

C19_OneTimerPending ==
    /\ [](boot.phase = "listening" => Len(timers) = 1 /\ timers[1] \in {now, now + 1})
    /\ [][/\ timers' # timers =>
                /\ timers[1] <= now
                /\ timers' = <<now + 1>>
                /\ resetOps' = resetOps + 1
          /\ resetOps' > resetOps => timers' # timers
          /\ resetOps' < resetOps => timers' = timers
         ]_vars

\* the reset of the second day has failed (the full count of the day before
\* is still there) and the timer for the third midnight is pending
C19_Witness ==
    /\ now = InitDay + 1 /\ resetOps = 0 /\ timers = <<now + 1>>
    /\ \E o \in Owners : uploadCounts[o] = UploadCountDoc(MAX_DAILY_UPLOADS, InitDay)

\* C20: whenever the server listens IDEAL_DF is the table of the file, has a
\* row and a label column; a file that is empty or has no label column ends
\* the start with the exit of the process, which never listens afterwards;
\* upload handlers run and Scores are saved only while the server listens.
C20_ListensOnlyWithReference ==
    /\ [](boot.phase = "listening" => IDEAL_DF = boot.file /\ Usable(IDEAL_DF))
    /\ [][/\ (boot.phase = "loading" /\ boot' # boot /\ ~Usable(boot.file)) =>
                boot'.phase = "exited"
          /\ boot.phase = "exited" => boot'.phase = "exited"
          /\ (pc' # pc \/ scores' # scores) => (boot.phase = "listening" /\ Usable(IDEAL_DF))
         ]_vars

\* an upload was scored against a reference set loaded from a file whose
\* label column is named Fraud
C20_Witness ==
    /\ boot.phase = "listening" /\ boot.file.header = <<"Fraud">>
    /\ \E r \in Requests : pc[r] = "done" /\ req[r].response.status = 200 /\ req[r].scoreSaved

\* C21: connectToMongoDB ends after at most retries attempts: it returns at
\* the first attempt that succeeds and tries no more; it has waited once
\* after every failed attempt but the last; the process exits, with code 1,
\* exactly when retries attempts have failed.
C21_ConnectRetries ==
    /\ [](/\ conn.attempts <= conn.retries
          /\ conn.phase = "returned" =>
                /\ conn.failed = conn.attempts - 1
                /\ conn.waits = conn.failed
          /\ conn.phase = "exited" <=> conn.failed = conn.retries
          /\ conn.phase = "exited" <=> conn.code = 1
          /\ conn.phase = "exited" =>
                /\ conn.attempts = conn.retries
                /\ conn.waits = conn.retries - 1
                /\ boot.phase = "exited")
    /\ [][conn.phase \in {"returned", "exited"} => conn' = conn]_vars
    /\ <>(conn.phase \in {"returned", "exited"})

\* the five attempts of the default have failed and the process has exited
C21_Witness ==
    /\ conn.phase = "exited" /\ conn.code = 1
    /\ conn.retries = DefaultRetries /\ conn.failed = DefaultRetries /\ conn.waits = DefaultRetries - 1

\* the stored Scores of owner o whose listed fields are those of entry e
StoredAs(o, e) == BagCardinality(Owned([x \in {y \in DOMAIN scores : Projected(y) = e} |-> scores[x]], o))

\* C22: a 200 response of GET /scores lists only Scores of the requesting
\* owner (no entry more often than the owner has stored it), newest first,
\* and all of them when no limit is given; total_submissions is the number
\* of the owner's Scores, best_f1 their largest f1 and null when there is
\* none, uploads_today the count of the owner's upload count document of
\* the current day and 0 without one, uploads_remaining is
\* MAX_DAILY_UPLOADS - uploads_today.
C22_OwnScoresAndStats ==
    stats.status = 200 =>
        LET o == stats.userId
            list == stats.scores
            mine == {x \in DOMAIN scores : x.userId = o}
        IN  /\ \A i \in DOMAIN list :
                  Cardinality({j \in DOMAIN list : list[j] = list[i]}) <= StoredAs(o, list[i])
            /\ \A i, j \in DOMAIN list : i < j => list[i].timestamp >= list[j].timestamp
            /\ ~stats.query.present => Len(list) = NumScores(o)
            /\ stats.total_submissions = NumScores(o)
            /\ IF mine = {} THEN stats.best_f1.isNull
               ELSE /\ ~stats.best_f1.isNull
                    /\ \E x \in mine : x.f1 = stats.best_f1.f1
                    /\ \A x \in mine : ~RatLess(stats.best_f1.f1, x.f1)
            /\ stats.uploads_today =
                  IF uploadCounts[o].exists /\ uploadCounts[o].date = now
                  THEN uploadCounts[o].count ELSE 0
            /\ stats.uploads_remaining = MAX_DAILY_UPLOADS - stats.uploads_today

\* an owner with Scores of two days and uploads of today got the list while
\* another owner has Scores as well
C22_Witness ==
    /\ stats.status = 200
    /\ Len(stats.scores) >= 2
    /\ stats.scores[1].timestamp > stats.scores[2].timestamp
    /\ RatLess(stats.scores[1].f1, stats.best_f1.f1)
    /\ stats.uploads_today > 0
    /\ \E x \in DOMAIN scores : x.userId # stats.userId

\* C23: once the SIGTERM listener has run, no reset timer is pending and
\* no timer callback calls resetDailyCounts any more.
C23_ResetCancelledAtShutdown ==
    /\ [](boot.phase \in {"closing", "exited"} => timers = <<>>)
    /\ [][boot.phase \in {"closing", "exited"} => resetOps' <= resetOps]_vars

\* C24: when the commit of the upload count fails after the Score was
\* saved, the request is answered 500, its Score stays in the collection,
\* the upload counts keep their values, and the handler has returned: the
\* server goes on listening.
C24_CommitFailureKeepsScore ==
    /\ [](boot.phase = "listening")
    /\ [][\A r \in Requests :
             (pc[r] = "commit" /\ pc'[r] # "commit" /\ req'[r].response.status # 200) =>
                 /\ req[r].scoreSaved
                 /\ req'[r].response.status = 500
                 /\ scores' = scores
                 /\ BagIn(ScoreOf(r), scores')
                 /\ uploadCounts' = uploadCounts
                 /\ pc'[r] = "done"
         ]_vars

\* two uploads one after the other by an owner without documents: the
\* first saved its Score and failed at the commit, the second was answered
\* 200 as the owner's first counted upload
C24_Witness ==
    /\ uploads = 2 /\ pc["r2"] = "idle" /\ pc["r1"] = "done"
    /\ req["r1"].response.status = 200
    /\ req["r1"].response.uploadsRemaining = MAX_DAILY_UPLOADS - 1
    /\ NumScoresOn(req["r1"].userId, InitDay) = 2
    /\ uploadCounts[req["r1"].userId] = UploadCountDoc(1, InitDay)

\* C25: when no reset is in progress and no upload is in flight, no
\* owner's count is larger than the number of that owner's uploads answered
\* 200 since the last reset: an upload that read its upload count before
\* the reset and commits after it does not bring the earlier count back.
C25_ResetNotUndone ==
    (resetOps = 0 /\ InFlight = {}) =>
        \A o \in Owners : uploadCounts[o].exists => uploadCounts[o].count <= okSinceReset[o]

\* the instant of the first Score of owner o, and of the first of the
\* owner's Scores with f1 f
FirstSubmission(o) ==
    LET mine == EntriesOf(Stored, o)
    IN  CHOOSE t \in {x.timestamp : x \in mine} : \A x \in mine : t <= x.timestamp
FirstWith(o, f) ==
    LET best == {x \in EntriesOf(Stored, o) : x.f1 = f}
    IN  CHOOSE t \in {x.timestamp : x \in best} : \A x \in best : t <= x.timestamp

\* C26: the leaderboard of the standalone server is ordered by best f1
\* descending, and of two owners with the same best f1 the one with the
\* earliest submission comes first: no owner is listed after another of
\* the same best f1 while both its first submission and its first
\* submission with that f1 are earlier than the other's.
C26_EarliestSubmissionFirst ==
    board.status = 200 =>
        \A i, j \in DOMAIN board.leaderboard :
            LET a == board.leaderboard[i]
                b == board.leaderboard[j]
            IN  i < j =>
                   /\ ~RatLess(a.f1_score, b.f1_score)
                   /\ a.f1_score = b.f1_score =>
                         ~(/\ FirstSubmission(b.user_id) < FirstSubmission(a.user_id)
                           /\ FirstWith(b.user_id, b.f1_score) < FirstWith(a.user_id, a.f1_score))

\* C27: on the start day (no reset yet), whenever no upload is in flight,
\* every owner's count of the day equals the number of Scores stored for
\* that owner that day, however the owner's uploads interleaved.
C27_CountEqualsScores ==
    (InFlight = {} /\ now = InitDay) =>
        \A o \in Owners :
            NumScoresOn(o, InitDay) =
                IF uploadCounts[o].exists /\ uploadCounts[o].date = InitDay
                THEN uploadCounts[o].count ELSE 0

\* C28: a request that stored a Score is answered 200; a request answered
\* with another status has stored none.
C28_NoScoreWithoutSuccess ==
    \A r \in Requests :
        (pc[r] = "done" /\ req[r].response.status # 200) => ~req[r].scoreSaved

\* C29: uploadsRemaining of a 200 response is at least 0 and at most
\* MAX_DAILY_UPLOADS - 1.
C29_RemainingInRange ==
    \A r \in Requests :
        (pc[r] = "done" /\ req[r].response.status = 200) =>
            req[r].response.uploadsRemaining \in 0..(MAX_DAILY_UPLOADS - 1)

\* C30: whenever AuthProvider has isAuthenticated true, its token and its
\* user are not null.
C30_AuthenticatedHasTokenAndUser ==
    auth.isAuthenticated => auth.token # Null /\ auth.user # Null
====
